---- MODULE Spec2Model ----
(***************************************************************************)
(* Model of the protocol/state core of CYD_OBD2_Gauge.ino: the BLE         *)
(* connection workflow, the run loop (poll scheduler, touch, UI refresh,   *)
(* link check), the notification callback (frame decoding, DTC parsing,    *)
(* gear estimation) and the backlight policy.                              *)
(*                                                                         *)
(* Representation of the C++ values:                                       *)
(*  - Arduino Strings are TLA+ strings (0-based C++ indices are shifted);  *)
(*  - the float rpmVal is held in units of 1/RPM_SCALE rpm and the float   *)
(*    maf in units of 1/MAF_SCALE g/s, so every value the code can store   *)
(*    is an integer here and the division is exact;                        *)
(*  - speedKph, coolantTemp and fuelRate only ever hold whole numbers;     *)
(*  - millis() gates (poll, UI, blink, touch debounce) are inputs: whether *)
(*    the interval has elapsed is chosen by the environment;               *)
(*  - pointers are "NULL", "VALID" or, for a handle whose owner has been   *)
(*    deleted, "STALE";                                                    *)
(*  - the callbacks run in the BLE task, in parallel with loop(): the main *)
(*    thread takes a step of its own for every blocking library call and   *)
(*    for every read of a value that the BLE task writes, where the code   *)
(*    reads it more than once or together with others.                     *)
(***************************************************************************)
EXTENDS Integers, Sequences, FiniteSets, TLC

VARIABLES
  pc,            \* position of the main thread in loop()/connectWorkflow()
  bleDeviceName, \* optional target name, fixed at build time
  foundDevice,   \* candidate device (a record) or NoDevice
  heard,         \* the advertisements of the scan window, in their order
  pClient,       \* "NULL" or "LIVE"
  clients,       \* BLEClient objects created and not deleted
  linkUp,        \* pClient->isConnected() as the transport reports it
  pTXChar,       \* write characteristic handle
  pRXChar,       \* notify characteristic handle
  notifyRegistered, \* onBLENotify registered on pRXChar
  bleConnected,
  attempt,       \* the connect loop's counter (0 outside the loop)
  dtcCounter,    \* static int dtcCounter of loop()
  cmdIdx,        \* sendOBDCommand calls made so far in the current poll cycle
  txLog,         \* commands written to pTXChar in the current loop() pass
  calls,         \* sendOBDCommand calls made in the current loop() pass
  cycleNo,       \* poll cycles started since boot, counted up to MaxCycles
  rpmVal, speedKph, coolantTemp, maf, fuelRate, dtcList, estGear,
  resp,          \* the trimmed response the last notification carried
  decoded,       \* the parameters a response has been decoded for so far
  cb,            \* position of the BLE task in onBLENotify: "idle", or "gear"
                 \* when the response is stored and estGear not yet recomputed
  currentMode, menuActive, menuSelection,
  blinkState,
  backlight,     \* last duty written to TFT_BL
  doc,           \* the members handleJSON has copied into its document so far
  sent,          \* the documents sent in this pass of loop(): none or one
  dtcWrites,     \* the texts assigned to dtcList while handleJSON copies it
  last           \* what the main thread did last

connVars == <<bleDeviceName, foundDevice, heard, pClient, clients, linkUp, pTXChar,
              pRXChar, notifyRegistered, bleConnected, attempt>>
dataVars == <<rpmVal, speedKph, coolantTemp, maf, fuelRate, dtcList, estGear, resp,
              decoded, cb>>
uiVars   == <<currentMode, menuActive, menuSelection, blinkState, backlight>>
pollVars == <<dtcCounter, cmdIdx, txLog, calls, cycleNo>>
webVars  == <<doc, sent, dtcWrites>>
vars == <<pc, connVars, pollVars, dataVars, uiVars, webVars, last>>

-----------------------------------------------------------------------------
(* Arduino String and libc helpers *)

Min(a, b) == IF a < b THEN a ELSE b
Max(a, b) == IF a > b THEN a ELSE b

\* the vertical tab (0x0B), which has no escape: the character itself is quoted
VT == ""

\* isspace() in the "C" locale: blank, \t, \n, vertical tab, \f, \r
WhiteSpace == {" ", "\t", "\n", VT, "\f", "\r"}

CharAt(s, i) == SubSeq(s, i + 1, i + 1)

RECURSIVE TrimLeft(_)
TrimLeft(s) ==
  IF Len(s) > 0 /\ CharAt(s, 0) \in WhiteSpace THEN TrimLeft(Tail(s)) ELSE s

RECURSIVE TrimRight(_)
TrimRight(s) ==
  IF Len(s) > 0 /\ CharAt(s, Len(s) - 1) \in WhiteSpace
    THEN TrimRight(SubSeq(s, 1, Len(s) - 1))
    ELSE s

\* String::trim()
trim(s) == TrimRight(TrimLeft(s))

\* String::startsWith(prefix)
startsWith(s, prefix) ==
  Len(s) >= Len(prefix) /\ SubSeq(s, 1, Len(prefix)) = prefix

\* String::substring(left, right): characters left..right-1, clipped to the string
substring(s, left, right) ==
  LET l == Min(left, right)
      r == Max(left, right)
  IN  IF l >= Len(s) THEN "" ELSE SubSeq(s, l + 1, Min(r, Len(s)))

\* String::replace(find, "") for a one-character find
RECURSIVE removeChar(_, _)
removeChar(s, c) ==
  IF Len(s) = 0 THEN ""
  ELSE IF CharAt(s, 0) = c THEN removeChar(Tail(s), c)
  ELSE CharAt(s, 0) \o removeChar(Tail(s), c)

HexChars == <<"0", "1", "2", "3", "4", "5", "6", "7", "8", "9",
              "A", "B", "C", "D", "E", "F">>
HexLower == <<"0", "1", "2", "3", "4", "5", "6", "7", "8", "9",
              "a", "b", "c", "d", "e", "f">>

isxdigit(c) == \E i \in 1..16 : HexChars[i] = c \/ HexLower[i] = c

digitValue(c) == (CHOOSE i \in 1..16 : HexChars[i] = c \/ HexLower[i] = c) - 1

\* the digits strtol consumes: it stops at the first character that is no hex digit
RECURSIVE accumulateHex(_, _)
accumulateHex(s, acc) ==
  IF Len(s) > 0 /\ isxdigit(CharAt(s, 0))
    THEN accumulateHex(Tail(s), acc * 16 + digitValue(CharAt(s, 0)))
    ELSE acc

\* strtol(s, nullptr, 16): leading white space, an optional sign, an optional
\* 0x prefix, then hex digits; 0 when there are none
strtol16(s) ==
  LET t == TrimLeft(s)
      neg == startsWith(t, "-")
      u == IF startsWith(t, "-") \/ startsWith(t, "+") THEN Tail(t) ELSE t
      v == IF startsWith(u, "0x") \/ startsWith(u, "0X") THEN SubSeq(u, 3, Len(u)) ELSE u
      n == accumulateHex(v, 0)
  IN  IF neg THEN 0 - n ELSE n

\* round(): half away from zero, for the quotient num/den with den > 0
roundDiv(num, den) ==
  IF num >= 0 THEN (2 * num + den) \div (2 * den)
              ELSE 0 - ((2 * (0 - num) + den) \div (2 * den))

\* constrain(amt, low, high)
constrain(amt, low, high) ==
  IF amt < low THEN low ELSE IF amt > high THEN high ELSE amt

-----------------------------------------------------------------------------
(* Frame codec and derived metrics *)

RPM_SCALE == 4
MAF_SCALE == 100
COOLANT_OFFSET == 40
RPM_MIN_LEN == 11
BYTE_MIN_LEN == 9
GEAR_DIVISOR == 10
GEAR_MIN == 1
GEAR_MAX == 6

\* decodeWord with the second byte read one character early
decodeWordShifted(r) ==
  LET A == strtol16(substring(r, 6, 8))
      B == strtol16(substring(r, 8, 10))
  IN  (A * 256) + B

\* ((A*256)+B) of a two-byte payload; the result is the value times the scale
decodeWord(r) ==
  LET A == strtol16(substring(r, 6, 8))
      B == strtol16(substring(r, 9, 11))
  IN  (A * 256) + B

decodeByte(r) == strtol16(substring(r, 6, 8))

\* parseDTCs(chunk)
RECURSIVE groupDTCs(_, _)
groupDTCs(chunk, i) ==
  IF i < Len(chunk)
    THEN substring(chunk, i, i + 4)
         \o (IF i + 4 < Len(chunk) THEN " " ELSE "")
         \o groupDTCs(chunk, i + 4)
    ELSE ""

parseDTCs(chunk) == groupDTCs(removeChar(removeChar(chunk, " "), "\r"), 2)

\* gearOf with the quotient cut off instead of rounded
gearOfTruncating(rpm, speed) ==
  LET d == IF speed > 1 THEN speed ELSE 1
  IN  constrain(rpm \div (RPM_SCALE * d * GEAR_DIVISOR), GEAR_MIN, GEAR_MAX)

\* estGear from rpmVal (in 1/RPM_SCALE rpm) and speedKph:
\* constrain(round((rpm / (speed > 1 ? speed : 1)) / 10), 1, 6)
gearOf(rpm, speed) ==
  LET d == IF speed > 1 THEN speed ELSE 1
  IN  constrain(roundDiv(rpm, RPM_SCALE * d * GEAR_DIVISOR), GEAR_MIN, GEAR_MAX)

\* newRpm with a final else branch that zeroes the reading on an unrecognised line
newRpmClearing(r) ==
  IF startsWith(r, "41 0C")
    THEN (IF Len(r) >= RPM_MIN_LEN THEN decodeWord(r) ELSE rpmVal)
  ELSE IF startsWith(r, "41 0D") \/ startsWith(r, "41 05") \/ startsWith(r, "41 10")
          \/ startsWith(r, "03")
    THEN rpmVal
  ELSE 0

\* newSpeed with the speed slot cleared by an RPM response
newSpeedClearedByRpm(r) ==
  IF ~startsWith(r, "41 0C") /\ startsWith(r, "41 0D") /\ Len(r) >= BYTE_MIN_LEN
    THEN decodeByte(r)
  ELSE IF startsWith(r, "41 0C") THEN 0
  ELSE speedKph

\* the slot each branch of onBLENotify writes
newRpm(r) ==
  IF startsWith(r, "41 0C") /\ Len(r) >= RPM_MIN_LEN THEN decodeWord(r) ELSE rpmVal

isSpeedLine(r) == ~startsWith(r, "41 0C") /\ startsWith(r, "41 0D")

newSpeed(r) ==
  IF isSpeedLine(r) /\ Len(r) >= BYTE_MIN_LEN THEN decodeByte(r) ELSE speedKph

isCoolantLine(r) ==
  ~startsWith(r, "41 0C") /\ ~startsWith(r, "41 0D") /\ startsWith(r, "41 05")

newCoolant(r) ==
  IF isCoolantLine(r) /\ Len(r) >= BYTE_MIN_LEN
    THEN decodeByte(r) - COOLANT_OFFSET
    ELSE coolantTemp

isMafLine(r) ==
  /\ ~startsWith(r, "41 0C") /\ ~startsWith(r, "41 0D") /\ ~startsWith(r, "41 05")
  /\ startsWith(r, "41 10")

newMaf(r) ==
  IF isMafLine(r) /\ Len(r) >= RPM_MIN_LEN THEN decodeWord(r) ELSE maf

isDtcLine(r) ==
  /\ ~startsWith(r, "41 0C") /\ ~startsWith(r, "41 0D") /\ ~startsWith(r, "41 05")
  /\ ~startsWith(r, "41 10")
  /\ startsWith(r, "03")

newDtcList(r) == IF isDtcLine(r) THEN parseDTCs(r) ELSE dtcList

\* the parameters whose branch of onBLENotify stores a value for the line r
decodedBy(r) ==
  (IF startsWith(r, "41 0C") /\ Len(r) >= RPM_MIN_LEN THEN {"rpm"} ELSE {})
  \cup (IF isSpeedLine(r) /\ Len(r) >= BYTE_MIN_LEN THEN {"speed"} ELSE {})
  \cup (IF isCoolantLine(r) /\ Len(r) >= BYTE_MIN_LEN THEN {"coolant"} ELSE {})
  \cup (IF isMafLine(r) /\ Len(r) >= RPM_MIN_LEN THEN {"maf"} ELSE {})
  \cup (IF isDtcLine(r) THEN {"dtc"} ELSE {})

\* the globals in the order handleJSON copies them into its document
Members == <<rpmVal, speedKph, coolantTemp, maf, fuelRate, estGear, dtcList>>

\* handleJSON is copying the String dtcList into its document (the last copy
\* has begun and the document is not serialised yet)
copyingDtc == Len(doc) = Len(Members)

\* the assignments to dtcList that have fallen into handleJSON's copy of it,
\* once the callback has handled the line r: the branch for "03" assigns the
\* String, whatever text it held before
dtcWritesAfter(r) ==
  IF copyingDtc /\ isDtcLine(r) THEN dtcWrites \cup {parseDTCs(r)} ELSE dtcWrites

\* onBLENotify with a branch that stores the data byte of a "41 5E" line
onBLENotifyDecodesFuel(data) ==
  /\ notifyRegistered /\ linkUp /\ cb = "idle"
  /\ LET r == trim(data) IN
       /\ resp' = r
       /\ decoded' = decoded \cup decodedBy(r)
       /\ rpmVal' = newRpm(r)
       /\ speedKph' = newSpeed(r)
       /\ coolantTemp' = newCoolant(r)
       /\ maf' = newMaf(r)
       /\ fuelRate' = IF startsWith(r, "41 5E") /\ Len(r) >= BYTE_MIN_LEN
                         THEN decodeByte(r) ELSE fuelRate
       /\ dtcList' = newDtcList(r)
  /\ cb' = "gear"
  /\ dtcWrites' = dtcWritesAfter(trim(data))
  /\ UNCHANGED <<pc, connVars, pollVars, estGear, uiVars, doc, sent, last>>

\* onBLENotify(chr, data, length, isNotify), called in the BLE task whenever
\* the transport delivers a notification on the registered characteristic, up
\* to the end of its if-chain: the response is stored, estGear is still the
\* one of the values before. The main thread runs on in parallel.
onBLENotify(data) ==
  /\ notifyRegistered /\ linkUp /\ cb = "idle"
  /\ LET r == trim(data) IN
       /\ resp' = r
       /\ decoded' = decoded \cup decodedBy(r)
       /\ rpmVal' = newRpm(r)
       /\ speedKph' = newSpeed(r)
       /\ coolantTemp' = newCoolant(r)
       /\ maf' = newMaf(r)
       /\ dtcList' = newDtcList(r)
  /\ cb' = "gear"
  /\ dtcWrites' = dtcWritesAfter(trim(data))
  /\ UNCHANGED <<pc, connVars, pollVars, fuelRate, estGear, uiVars, doc, sent, last>>

\* the last two lines of the callback: estGear from rpmVal and speedKph
onBLENotifyGear ==
  /\ cb = "gear"
  /\ estGear' = gearOf(rpmVal, speedKph)
  /\ cb' = "idle"
  /\ UNCHANGED <<pc, connVars, pollVars, rpmVal, speedKph, coolantTemp, maf, fuelRate,
                 dtcList, resp, decoded, uiVars, webVars, last>>

\* the vehicle values as a request for /data served in this state, with no
\* notification during it, is answered
vehicleState ==
  [rpm |-> rpmVal, speed |-> speedKph, coolant |-> coolantTemp, maf |-> maf,
   fuel |-> fuelRate, gear |-> estGear, dtc |-> dtcList]

\* what the copy of a String is when the String is assigned during the copy
Garbled == "?"

\* handleJSON(), called by server.handleClient() when a request for /data is
\* pending: the globals are copied one after the other while the BLE task may
\* run onBLENotify in between; the copy of dtcList is a String copy, which
\* has ended when the document is serialised, and every assignment to dtcList
\* during it (one that puts back the text it had included) may leave the
\* text before, a text assigned or neither in the document
handleJSON ==
  /\ pc = "link" /\ sent = <<>>
  /\ IF Len(doc) < Len(Members)
       THEN /\ doc' = Append(doc, Members[Len(doc) + 1])
            /\ UNCHANGED sent
       ELSE /\ \E d \in (IF dtcWrites = {} THEN {doc[7]}
                                            ELSE {doc[7], Garbled} \cup dtcWrites) :
                 sent' = <<[rpm |-> doc[1], speed |-> doc[2], coolant |-> doc[3],
                            maf |-> doc[4], fuel |-> doc[5], gear |-> doc[6], dtc |-> d]>>
            /\ doc' = <<>>
  /\ dtcWrites' = {}
  /\ UNCHANGED <<pc, connVars, pollVars, dataVars, uiVars, last>>

-----------------------------------------------------------------------------
(* Transport: scan results, link establishment, link loss *)

NoDevice == [addr |-> "none", name |-> ""]

\* advertised devices in range; a device without a name advertises ""
Devices == {[addr |-> "a1", name |-> ""]}

\* a handle into a client that has been deleted dangles
stale(h) == IF h = "NULL" THEN "NULL" ELSE "STALE"

inWindow(d) == \E i \in 1..Len(heard) : heard[i] = d

\* onResult with the fallback branch taken whatever bleDeviceName is
onResultAnyName(advertisedDevice) ==
  /\ pc = "scan" /\ ~inWindow(advertisedDevice)
  /\ heard' = Append(heard, advertisedDevice)
  /\ foundDevice' =
       IF foundDevice = NoDevice THEN advertisedDevice
       ELSE IF advertisedDevice.name = bleDeviceName THEN advertisedDevice
       ELSE foundDevice
  /\ UNCHANGED <<pc, bleDeviceName, pClient, clients, linkUp, pTXChar, pRXChar,
                 notifyRegistered, bleConnected, attempt, pollVars, dataVars, uiVars, last>>
  /\ UNCHANGED webVars

\* MyAdvertisedDeviceCallbacks::onResult, called by the scan once for every
\* device it hears during the scan window
onResult(advertisedDevice) ==
  /\ pc = "scan" /\ ~inWindow(advertisedDevice)
  /\ heard' = Append(heard, advertisedDevice)
  /\ LET n == advertisedDevice.name IN
       foundDevice' =
         IF bleDeviceName = "" /\ foundDevice = NoDevice THEN advertisedDevice
         ELSE IF n = bleDeviceName THEN advertisedDevice
         ELSE foundDevice
  /\ UNCHANGED <<pc, bleDeviceName, pClient, clients, linkUp, pTXChar, pRXChar,
                 notifyRegistered, bleConnected, attempt, pollVars, dataVars, uiVars, last>>
  /\ UNCHANGED webVars

\* the peer goes away: pClient->isConnected() turns false
LinkLoss ==
  /\ pClient = "LIVE" /\ linkUp
  /\ linkUp' = FALSE
  /\ UNCHANGED <<pc, bleDeviceName, foundDevice, heard, pClient, clients, pTXChar, pRXChar,
                 notifyRegistered, bleConnected, attempt, pollVars, dataVars, uiVars, last>>
  /\ UNCHANGED webVars

-----------------------------------------------------------------------------
(* connectWorkflow *)

MAX_ATTEMPTS == 2

\* LoopConnect that starts the scan with the previous candidate still set
LoopConnectKeepsCandidate ==
  /\ pc = "loop" /\ ~bleConnected
  /\ heard' = <<>>
  /\ pc' = "scan"
  /\ last' = "scanStart"
  /\ UNCHANGED <<bleDeviceName, foundDevice, pClient, clients, linkUp, pTXChar, pRXChar,
                 notifyRegistered, bleConnected, attempt, pollVars, dataVars, uiVars>>
  /\ UNCHANGED webVars

\* loop() with bleConnected false enters connectWorkflow: the previous
\* candidate is cleared and a scan is started
LoopConnect ==
  /\ pc = "loop" /\ ~bleConnected
  /\ foundDevice' = NoDevice
  /\ heard' = <<>>
  /\ pc' = "scan"
  /\ last' = "scanStart"
  /\ UNCHANGED <<bleDeviceName, pClient, clients, linkUp, pTXChar, pRXChar,
                 notifyRegistered, bleConnected, attempt, pollVars, dataVars, uiVars>>
  /\ UNCHANGED webVars

\* scan->start returns: with a candidate a fresh client is created, without
\* one the workflow returns for the next loop() pass
ScanComplete ==
  /\ pc = "scan"
  /\ IF foundDevice # NoDevice
       THEN /\ pClient' = "LIVE"
            /\ clients' = (IF pClient # "NULL" THEN clients - 1 ELSE clients) + 1
            /\ linkUp' = FALSE
            /\ pTXChar' = IF pClient # "NULL" THEN stale(pTXChar) ELSE pTXChar
            /\ pRXChar' = IF pClient # "NULL" THEN stale(pRXChar) ELSE pRXChar
            /\ notifyRegistered' = IF pClient # "NULL" THEN FALSE ELSE notifyRegistered
            /\ attempt' = 0
            /\ pc' = "connect"
            /\ last' = "createClient"
       ELSE /\ pc' = "loop"
            /\ last' = "noDevice"
            /\ UNCHANGED <<pClient, clients, linkUp, pTXChar, pRXChar, notifyRegistered,
                           attempt>>
  /\ UNCHANGED <<bleDeviceName, foundDevice, heard, bleConnected, pollVars, dataVars, uiVars>>
  /\ UNCHANGED webVars

\* discardCandidate without the release of the client
discardCandidateKeepsClient ==
  /\ UNCHANGED <<pClient, clients, pTXChar, pRXChar, notifyRegistered>>
  /\ linkUp' = FALSE
  /\ foundDevice' = NoDevice
  /\ bleConnected' = FALSE
  /\ pc' = "loop"

\* what a failed candidate leaves behind: client disconnected and deleted,
\* candidate cleared, not connected
discardCandidate ==
  /\ pClient' = "NULL"
  /\ clients' = IF pClient # "NULL" THEN clients - 1 ELSE clients
  /\ linkUp' = FALSE
  /\ pTXChar' = stale(pTXChar)
  /\ pRXChar' = stale(pRXChar)
  /\ notifyRegistered' = FALSE
  /\ foundDevice' = NoDevice
  /\ bleConnected' = FALSE
  /\ pc' = "loop"

\* one pass of the connect loop; after the last failed attempt the candidate
\* is discarded
ConnectAttempt(ok) ==
  /\ pc = "connect"
  /\ IF ok
       THEN /\ linkUp' = TRUE
            /\ attempt' = 0
            /\ pc' = "discover"
            /\ last' = "linkEstablished"
            /\ UNCHANGED <<foundDevice, pClient, clients, pTXChar, pRXChar,
                           notifyRegistered, bleConnected>>
       ELSE IF attempt + 1 < MAX_ATTEMPTS
         THEN /\ attempt' = attempt + 1
              /\ last' = "attemptFailed"
              /\ UNCHANGED <<pc, foundDevice, pClient, clients, linkUp, pTXChar, pRXChar,
                             notifyRegistered, bleConnected>>
         ELSE /\ attempt' = 0
              /\ discardCandidate
              /\ last' = "connectFailed"
  /\ UNCHANGED <<bleDeviceName, heard, pollVars, dataVars, uiVars>>
  /\ UNCHANGED webVars

\* DiscoverServices that returns on a missing service without the clean-up
DiscoverServicesKeepsCandidate(svc) ==
  /\ pc = "discover"
  /\ IF svc
       THEN /\ pc' = "getTX"
            /\ last' = "serviceFound"
       ELSE /\ pc' = "loop"
            /\ last' = "serviceNotFound"
  /\ UNCHANGED <<connVars, pollVars, dataVars, uiVars>>
  /\ UNCHANGED webVars

\* pClient->getService(nusServiceUUID) returns: with the service the workflow
\* goes on to the characteristics, without it the candidate is discarded
DiscoverServices(svc) ==
  /\ pc = "discover"
  /\ IF svc
       THEN /\ pc' = "getTX"
            /\ last' = "serviceFound"
            /\ UNCHANGED <<foundDevice, pClient, clients, linkUp, pTXChar, pRXChar,
                           notifyRegistered, bleConnected>>
       ELSE /\ discardCandidate
            /\ last' = "serviceNotFound"
  /\ UNCHANGED <<bleDeviceName, heard, attempt, pollVars, dataVars, uiVars>>
  /\ UNCHANGED webVars

\* pTXChar = pSvc->getCharacteristic(nusTXCharUUID)
GetTXCharacteristic(tx) ==
  /\ pc = "getTX"
  /\ pTXChar' = IF tx THEN "VALID" ELSE "NULL"
  /\ pc' = "getRX"
  /\ last' = "txLookedUp"
  /\ UNCHANGED <<bleDeviceName, foundDevice, heard, pClient, clients, linkUp, pRXChar,
                 notifyRegistered, bleConnected, attempt, pollVars, dataVars, uiVars>>
  /\ UNCHANGED webVars

\* pRXChar = pSvc->getCharacteristic(nusRXCharUUID)
GetRXCharacteristic(rx) ==
  /\ pc = "getRX"
  /\ pRXChar' = IF rx THEN "VALID" ELSE "NULL"
  /\ pc' = "register"
  /\ last' = "rxLookedUp"
  /\ UNCHANGED <<bleDeviceName, foundDevice, heard, pClient, clients, linkUp, pTXChar,
                 notifyRegistered, bleConnected, attempt, pollVars, dataVars, uiVars>>
  /\ UNCHANGED webVars

\* if (pRXChar && pRXChar->canNotify()) pRXChar->registerForNotify(onBLENotify):
\* from here on the transport delivers notifications to onBLENotify, while the
\* main thread has not yet set bleConnected
registerForNotify(canNotify) ==
  /\ pc = "register"
  /\ notifyRegistered' = (pRXChar = "VALID" /\ canNotify)
  /\ pc' = "setConnected"
  /\ last' = IF pRXChar = "VALID" /\ canNotify THEN "registered" ELSE "notRegistered"
  /\ UNCHANGED <<bleDeviceName, foundDevice, heard, pClient, clients, linkUp, pTXChar,
                 pRXChar, bleConnected, attempt, pollVars, dataVars, uiVars>>
  /\ UNCHANGED webVars

\* SetConnected with a DTC cycle counter that starts again with every session
SetConnectedResetsCounter ==
  /\ pc = "setConnected"
  /\ bleConnected' = TRUE
  /\ dtcCounter' = 0
  /\ pc' = "loop"
  /\ last' = "connected"
  /\ UNCHANGED <<bleDeviceName, foundDevice, heard, pClient, clients, linkUp, pTXChar,
                 pRXChar, notifyRegistered, attempt, cmdIdx, txLog, calls, cycleNo,
                 dataVars, uiVars>>
  /\ UNCHANGED webVars

\* bleConnected = true, whatever the look-ups and the registration gave and
\* whether or not the link is still up; connectWorkflow returns
SetConnected ==
  /\ pc = "setConnected"
  /\ bleConnected' = TRUE
  /\ pc' = "loop"
  /\ last' = "connected"
  /\ UNCHANGED <<bleDeviceName, foundDevice, heard, pClient, clients, linkUp, pTXChar,
                 pRXChar, notifyRegistered, attempt, pollVars, dataVars, uiVars>>
  /\ UNCHANGED webVars

-----------------------------------------------------------------------------
(* Poll scheduler *)

\* the poll block with the speed and coolant requests exchanged
PollCmdsSwapped == <<"010C", "0105", "010D", "0110", "015E">>

PollCmds == <<"010C", "010D", "0105", "0110", "015E">>
DTC_EVERY == 6

\* cycles are counted this far; MaxCycles stands for "MaxCycles or more"
MaxCycles == 13

\* sendOBDCommand(cmd): the write log after the call
sendOBDCommand(cmd) ==
  IF pTXChar # "NULL" /\ bleConnected THEN Append(txLog, cmd \o "\r") ELSE txLog

sendLabel(cmd) ==
  IF sendOBDCommand(cmd) # txLog THEN "written" ELSE "dropped"

\* loop() while connected with the poll interval elapsed: the first request
\* goes out and the thread sits in the delay(80) behind it
LoopPoll ==
  /\ pc = "loop" /\ bleConnected
  /\ txLog' = sendOBDCommand(PollCmds[1])
  /\ calls' = Append(calls, PollCmds[1])
  /\ cycleNo' = Min(cycleNo + 1, MaxCycles)
  /\ cmdIdx' = 1
  /\ pc' = "poll"
  /\ last' = sendLabel(PollCmds[1])
  /\ UNCHANGED <<connVars, dtcCounter, dataVars, uiVars>>
  /\ UNCHANGED webVars

\* loop() while connected with the poll interval not yet elapsed
LoopIdle ==
  /\ pc = "loop" /\ bleConnected
  /\ pc' = "touch"
  /\ last' = "pollNotDue"
  /\ UNCHANGED <<connVars, pollVars, dataVars, uiVars>>
  /\ UNCHANGED webVars

\* the next request of the cycle and the delay(80) behind it
PollStep ==
  /\ pc = "poll" /\ cmdIdx < Len(PollCmds)
  /\ txLog' = sendOBDCommand(PollCmds[cmdIdx + 1])
  /\ calls' = Append(calls, PollCmds[cmdIdx + 1])
  /\ cmdIdx' = cmdIdx + 1
  /\ last' = sendLabel(PollCmds[cmdIdx + 1])
  /\ UNCHANGED <<pc, connVars, dtcCounter, cycleNo, dataVars, uiVars>>
  /\ UNCHANGED webVars

\* if (++dtcCounter >= 6) { dtcCounter = 0; sendOBDCommand("03"); }
PollEnd ==
  /\ pc = "poll" /\ cmdIdx = Len(PollCmds)
  /\ IF dtcCounter + 1 >= DTC_EVERY
       THEN /\ dtcCounter' = 0
            /\ txLog' = sendOBDCommand("03")
            /\ calls' = Append(calls, "03")
            /\ last' = sendLabel("03")
       ELSE /\ dtcCounter' = dtcCounter + 1
            /\ last' = "pollEnd"
            /\ UNCHANGED <<txLog, calls>>
  /\ cmdIdx' = 0
  /\ pc' = "touch"
  /\ UNCHANGED <<connVars, cycleNo, dataVars, uiVars>>
  /\ UNCHANGED webVars

-----------------------------------------------------------------------------
(* Touch, UI refresh and backlight *)

Modes == <<"SPORT", "ECO", "DATA", "ERROR">>

\* what a touch hits, in the order checkTouch tests it; "none" is no touch or a
\* touch inside the debounce time
TouchInputs ==
  {"none", "menuIcon", "mode0", "mode1", "mode2", "mode3",
   "item0", "item1", "item2", "item3", "close", "settingsControl", "elsewhere"}

modeIndex(t) == CHOOSE i \in 0..3 : t = "mode" \o HexChars[i + 1]
itemIndex(t) == CHOOSE i \in 0..3 : t = "item" \o HexChars[i + 1]

\* checkTouch()
checkTouch(t) ==
  /\ pc = "touch"
  /\ IF t = "none" THEN UNCHANGED <<currentMode, menuActive, menuSelection>>
     ELSE IF t = "menuIcon"
       THEN /\ menuActive' = ~menuActive
            /\ menuSelection' = -1
            /\ UNCHANGED currentMode
     ELSE IF t \in {"mode0", "mode1", "mode2", "mode3"}
       THEN /\ currentMode' = Modes[modeIndex(t) + 1]
            /\ menuActive' = FALSE
            /\ menuSelection' = -1
     ELSE IF ~menuActive THEN UNCHANGED <<currentMode, menuActive, menuSelection>>
     ELSE IF t \in {"item0", "item1", "item2", "item3"}
       THEN /\ menuSelection' = itemIndex(t)
            /\ UNCHANGED <<currentMode, menuActive>>
     ELSE IF t = "close"
       THEN /\ menuActive' = FALSE
            /\ menuSelection' = -1
            /\ UNCHANGED currentMode
     ELSE IF menuSelection = 0 /\ t = "settingsControl"
       THEN UNCHANGED <<currentMode, menuActive, menuSelection>>
     ELSE IF menuSelection # -1
       THEN /\ menuSelection' = -1
            /\ UNCHANGED <<currentMode, menuActive>>
     ELSE UNCHANGED <<currentMode, menuActive, menuSelection>>
  /\ pc' = "ui"
  /\ last' = "checkTouch"
  /\ UNCHANGED <<connVars, pollVars, dataVars, blinkState, backlight>>
  /\ UNCHANGED webVars

BLINK_RPM == 6500
FULL_RPM == 5500
BL_FULL == 255
BL_DIM == 150
BL_OFF == 0

\* the blink phase after the first test of updateBacklight():
\* if (rpmVal >= 6500) { if (millis() - lastBlink > BLINK_INTERVAL) blinkState = !blinkState; ... }
blinkAfter(blinkDue) ==
  IF currentMode = "SPORT" /\ rpmVal >= BLINK_RPM * RPM_SCALE /\ blinkDue
    THEN 1 - blinkState
    ELSE blinkState

\* updateBacklight() in a build with TFT_BL, up to its first read of rpmVal:
\* outside SPORT the duty is DIM, in SPORT at or above the blink threshold the
\* phase is written, and below it the function goes on to read rpmVal a second
\* time, which the BLE task may have written in between
updateBacklight(blinkDue) ==
  IF currentMode = "SPORT"
    THEN IF rpmVal >= BLINK_RPM * RPM_SCALE
           THEN /\ blinkState' = blinkAfter(blinkDue)
                /\ backlight' = (IF blinkAfter(blinkDue) # 0 THEN BL_FULL ELSE BL_OFF)
                /\ pc' = "link"
           ELSE /\ pc' = "backlight"
                /\ UNCHANGED <<blinkState, backlight>>
    ELSE /\ backlight' = BL_DIM
         /\ pc' = "link"
         /\ UNCHANGED blinkState

\* the UI block of loop(): drawScreen, then updateBacklight unless the menu is open
LoopUI(uiDue, blinkDue) ==
  /\ pc = "ui"
  /\ IF uiDue /\ ~menuActive
       THEN updateBacklight(blinkDue)
       ELSE /\ pc' = "link"
            /\ UNCHANGED <<blinkState, backlight>>
  /\ last' = IF uiDue THEN "uiRefresh" ELSE "uiNotDue"
  /\ UNCHANGED <<connVars, pollVars, dataVars, currentMode, menuActive, menuSelection>>
  /\ UNCHANGED webVars

\* the rest of updateBacklight(): else if (rpmVal >= 5500) FULL, else DIM, with
\* rpmVal as it is now
updateBacklightElse ==
  /\ pc = "backlight"
  /\ backlight' = (IF rpmVal >= FULL_RPM * RPM_SCALE THEN BL_FULL ELSE BL_DIM)
  /\ pc' = "link"
  /\ last' = "uiRefresh"
  /\ UNCHANGED <<connVars, pollVars, dataVars, currentMode, menuActive, menuSelection,
                 blinkState>>
  /\ UNCHANGED webVars

\* LoopLinkCheck that drops the session at the end of every pass
LoopLinkCheckDropsAlways ==
  /\ pc = "link"
  /\ doc = <<>>
  /\ IF pClient # "NULL"
       THEN /\ bleConnected' = FALSE
            /\ pClient' = "NULL"
            /\ clients' = clients - 1
            /\ linkUp' = FALSE
            /\ pTXChar' = stale(pTXChar)
            /\ pRXChar' = stale(pRXChar)
            /\ notifyRegistered' = FALSE
            /\ last' = "linkLostSeen"
       ELSE /\ last' = "passEnd"
            /\ UNCHANGED <<bleConnected, pClient, clients, linkUp, pTXChar, pRXChar,
                           notifyRegistered>>
  /\ txLog' = <<>>
  /\ calls' = <<>>
  /\ pc' = "loop"
  /\ UNCHANGED <<bleDeviceName, foundDevice, heard, attempt, dtcCounter, cmdIdx, cycleNo,
                 dataVars, uiVars>>
  /\ sent' = <<>>
  /\ UNCHANGED <<doc, dtcWrites>>

\* LoopLinkCheck that releases the client but leaves bleConnected set
LoopLinkCheckKeepsFlag ==
  /\ pc = "link"
  /\ doc = <<>>
  /\ IF pClient # "NULL" /\ ~linkUp
       THEN /\ pClient' = "NULL"
            /\ clients' = clients - 1
            /\ pTXChar' = stale(pTXChar)
            /\ pRXChar' = stale(pRXChar)
            /\ notifyRegistered' = FALSE
            /\ last' = "linkLostSeen"
            /\ UNCHANGED <<linkUp, bleConnected>>
       ELSE /\ last' = "passEnd"
            /\ UNCHANGED <<bleConnected, pClient, clients, linkUp, pTXChar, pRXChar,
                           notifyRegistered>>
  /\ txLog' = <<>>
  /\ calls' = <<>>
  /\ pc' = "loop"
  /\ UNCHANGED <<bleDeviceName, foundDevice, heard, attempt, dtcCounter, cmdIdx, cycleNo,
                 dataVars, uiVars>>
  /\ sent' = <<>>
  /\ UNCHANGED <<doc, dtcWrites>>

\* LoopLinkCheck that forgets the client without deleting it
LoopLinkCheckLeaksClient ==
  /\ pc = "link"
  /\ doc = <<>>
  /\ IF pClient # "NULL" /\ ~linkUp
       THEN /\ bleConnected' = FALSE
            /\ pClient' = "NULL"
            /\ last' = "linkLostSeen"
            /\ UNCHANGED <<clients, linkUp, pTXChar, pRXChar, notifyRegistered>>
       ELSE /\ last' = "passEnd"
            /\ UNCHANGED <<bleConnected, pClient, clients, linkUp, pTXChar, pRXChar,
                           notifyRegistered>>
  /\ txLog' = <<>>
  /\ calls' = <<>>
  /\ pc' = "loop"
  /\ UNCHANGED <<bleDeviceName, foundDevice, heard, attempt, dtcCounter, cmdIdx, cycleNo,
                 dataVars, uiVars>>
  /\ sent' = <<>>
  /\ UNCHANGED <<doc, dtcWrites>>

\* server.handleClient() with no request for /data left to serve, then the
\* link check that ends the pass
LoopLinkCheck ==
  /\ pc = "link"
  /\ doc = <<>>
  /\ IF pClient # "NULL" /\ ~linkUp
       THEN /\ bleConnected' = FALSE
            /\ pClient' = "NULL"
            /\ clients' = clients - 1
            /\ pTXChar' = stale(pTXChar)
            /\ pRXChar' = stale(pRXChar)
            /\ notifyRegistered' = FALSE
            /\ last' = "linkLostSeen"
            /\ UNCHANGED linkUp
       ELSE /\ last' = "passEnd"
            /\ UNCHANGED <<bleConnected, pClient, clients, linkUp, pTXChar, pRXChar,
                           notifyRegistered>>
  /\ txLog' = <<>>
  /\ calls' = <<>>
  /\ pc' = "loop"
  /\ UNCHANGED <<bleDeviceName, foundDevice, heard, attempt, dtcCounter, cmdIdx, cycleNo,
                 dataVars, uiVars>>
  /\ sent' = <<>>
  /\ UNCHANGED <<doc, dtcWrites>>

-----------------------------------------------------------------------------
(* Specifications *)

\* the globals as initialised, after setup()
Init ==
  /\ pc = "loop"
  /\ bleDeviceName = ""
  /\ foundDevice = NoDevice
  /\ heard = <<>>
  /\ pClient = "NULL"
  /\ clients = 0
  /\ linkUp = FALSE
  /\ pTXChar = "NULL"
  /\ pRXChar = "NULL"
  /\ notifyRegistered = FALSE
  /\ bleConnected = FALSE
  /\ attempt = 0
  /\ dtcCounter = 0
  /\ cmdIdx = 0
  /\ txLog = <<>>
  /\ calls = <<>>
  /\ cycleNo = 0
  /\ rpmVal = 0
  /\ speedKph = 0
  /\ coolantTemp = 0
  /\ maf = (0 - 1) * MAF_SCALE
  /\ fuelRate = -1
  /\ dtcList = ""
  /\ estGear = 0
  /\ resp = ""
  /\ decoded = {}
  /\ cb = "idle"
  /\ currentMode = "SPORT"
  /\ menuActive = FALSE
  /\ menuSelection = -1
  /\ blinkState = 0
  /\ backlight = BL_FULL
  /\ doc = <<>>
  /\ sent = <<>>
  /\ dtcWrites = {}
  /\ last = "setup"

\* responses delivered while the run loop is exercised
LoopFrames == {"41 0C 65 90", "41 0C 1A F8\r", "41 5E 10"}

\* touches made while the run loop is exercised
LoopTouches == {"none", "menuIcon", "mode0", "mode1"}

\* one step of loop() and of the connectWorkflow() it calls, the touch read
\* being one of touches
loop(touches) ==
  \/ LoopConnect
  \/ ScanComplete
  \/ \E ok \in BOOLEAN : ConnectAttempt(ok)
  \/ \E svc \in (IF linkUp THEN BOOLEAN ELSE {FALSE}) : DiscoverServices(svc)
  \/ \E tx \in BOOLEAN : GetTXCharacteristic(tx)
  \/ \E rx \in BOOLEAN : GetRXCharacteristic(rx)
  \/ \E canNotify \in BOOLEAN : registerForNotify(canNotify)
  \/ SetConnected
  \/ LoopPoll
  \/ LoopIdle
  \/ PollStep
  \/ PollEnd
  \/ \E t \in touches : checkTouch(t)
  \/ \E uiDue \in BOOLEAN, blinkDue \in BOOLEAN : LoopUI(uiDue, blinkDue)
  \/ updateBacklightElse
  \/ LoopLinkCheck

MainThread == loop(LoopTouches)

Environment ==
  \/ \E d \in Devices : onResult(d)
  \/ LinkLoss
  \/ \E data \in LoopFrames : onBLENotify(data)
  \/ onBLENotifyGear

Next == MainThread \/ Environment

Spec == Init /\ [][Next]_vars

\* the screen left alone
NoTouch == {"none"}

NextUntouched == loop(NoTouch) \/ Environment

\* the run loop never stops, and the poll interval elapses again and again
FairSpec ==
  Init /\ [][NextUntouched]_vars /\ WF_vars(loop(NoTouch)) /\ SF_vars(LoopPoll)

\* the state a first successful connectWorkflow leaves: link up, both
\* characteristics found, notifications registered, nothing decoded yet
InitCodec ==
  /\ pc = "loop"
  /\ bleDeviceName = ""
  /\ foundDevice \in Devices
  /\ heard = <<foundDevice>>
  /\ pClient = "LIVE"
  /\ clients = 1
  /\ linkUp = TRUE
  /\ pTXChar = "VALID"
  /\ pRXChar = "VALID"
  /\ notifyRegistered = TRUE
  /\ bleConnected = TRUE
  /\ attempt = 0
  /\ dtcCounter = 0
  /\ cmdIdx = 0
  /\ txLog = <<>>
  /\ calls = <<>>
  /\ cycleNo = 0
  /\ rpmVal = 0
  /\ speedKph = 0
  /\ coolantTemp = 0
  /\ maf = (0 - 1) * MAF_SCALE
  /\ fuelRate = -1
  /\ dtcList = ""
  /\ estGear = 0
  /\ resp = ""
  /\ decoded = {}
  /\ cb = "idle"
  /\ currentMode = "SPORT"
  /\ menuActive = FALSE
  /\ menuSelection = -1
  /\ blinkState = 0
  /\ backlight = BL_FULL
  /\ doc = <<>>
  /\ sent = <<>>
  /\ dtcWrites = {}
  /\ last = "connected"

\* payloads of the responses fed to the codec
RpmHigh == {"00", "1A", "65"}
RpmLow == {"00", "F8", "90"}
SpeedData == {"00", "32", "FF"}
CoolantData == {"00", "5A", "FF"}

\* what an adapter sends behind the data bytes: a blank, line ends, its prompt
ElmTail == " \r\r>"

CodecFrames ==
  {"41 0C " \o a \o " " \o b : a \in RpmHigh, b \in RpmLow}
  \cup {"41 0D " \o a \o ElmTail : a \in SpeedData}
  \cup {"41 05 " \o a \o ElmTail : a \in CoolantData}
  \cup {"\f41 0C 1A F8", "41 0D 32\f", "41 05 5A" \o VT, "41 0C \fA F8"}
  \cup {"41 0C 1A F8\r", "  41 0C 65 90 \r\n", "41 0C -1 00", "41 0C 1A F", "41 0C 1A",
        "41 0C", "41 0D 32", "41 0D 3", "41 0D", "41 05 5A", "41 05 5A\r", "41 05",
        "41 10 0A 28", "41 10 0A 2", "41 10",
        "43 01 71 02 03", "03 01 71 02 03", "03 01 71 02", "03",
        "41 5E 10", "NO DATA", ""}

NotifyCodec == (\E data \in CodecFrames : onBLENotify(data)) \/ onBLENotifyGear

\* the notification path alone, on a connected link
SpecCodec == InitCodec /\ [][NotifyCodec]_vars

\* every data byte "00".."FF"
HexPairs == {HexChars[i] \o HexChars[j] : i \in 1..16, j \in 1..16}

\* RPM lines over every first data byte and over every second data byte
RpmFrames ==
  {"41 0C " \o a \o " " \o b : a \in HexPairs, b \in {"00", "F8"}}
  \cup {"41 0C " \o a \o " " \o b : a \in {"1A"}, b \in HexPairs}

NotifyRpm == (\E data \in RpmFrames : onBLENotify(data)) \/ onBLENotifyGear

\* the notification path fed with RPM responses only
SpecRpm == InitCodec /\ [][NotifyRpm]_vars

\* devices in range while the scan is exercised: nameless, named as the
\* filter, named alike but for the case, a second one named as the filter
ScanDevices ==
  {[addr |-> "a1", name |-> ""], [addr |-> "a2", name |-> "OBDII"],
   [addr |-> "a3", name |-> "obdii"], [addr |-> "a4", name |-> "OBDII"]}

\* builds without and with a target name
ScanFilters == {"", "OBDII"}

\* the globals as initialised, for either build
InitScan ==
  /\ pc = "loop"
  /\ bleDeviceName \in ScanFilters
  /\ foundDevice = NoDevice
  /\ heard = <<>>
  /\ pClient = "NULL"
  /\ clients = 0
  /\ linkUp = FALSE
  /\ pTXChar = "NULL"
  /\ pRXChar = "NULL"
  /\ notifyRegistered = FALSE
  /\ bleConnected = FALSE
  /\ attempt = 0
  /\ dtcCounter = 0
  /\ cmdIdx = 0
  /\ txLog = <<>>
  /\ calls = <<>>
  /\ cycleNo = 0
  /\ rpmVal = 0
  /\ speedKph = 0
  /\ coolantTemp = 0
  /\ maf = (0 - 1) * MAF_SCALE
  /\ fuelRate = -1
  /\ dtcList = ""
  /\ estGear = 0
  /\ resp = ""
  /\ decoded = {}
  /\ cb = "idle"
  /\ currentMode = "SPORT"
  /\ menuActive = FALSE
  /\ menuSelection = -1
  /\ blinkState = 0
  /\ backlight = BL_FULL
  /\ doc = <<>>
  /\ sent = <<>>
  /\ dtcWrites = {}
  /\ last = "setup"

NextScan ==
  \/ LoopConnect
  \/ \E d \in ScanDevices : onResult(d)
  \/ ScanComplete
  \/ \E ok \in BOOLEAN : ConnectAttempt(ok)
  \/ \E svc \in (IF linkUp THEN BOOLEAN ELSE {FALSE}) : DiscoverServices(svc)
  \/ GetTXCharacteristic(TRUE)
  \/ GetRXCharacteristic(TRUE)
  \/ registerForNotify(TRUE)
  \/ SetConnected
  \/ LoopIdle
  \/ checkTouch("none")
  \/ LoopUI(FALSE, FALSE)
  \/ LoopLinkCheck
  \/ LinkLoss

\* scan, candidate selection and connect cycles over several devices
SpecScan == InitScan /\ [][NextScan]_vars

\* poll cycles of the session that is followed to its end
SessionCycles == 2

\* one session from its start to the pass that sees the link lost, with every
\* kind of touch, requests for /data and up to SessionCycles poll cycles
NextSession ==
  \/ cycleNo < SessionCycles /\ LoopPoll
  \/ LoopIdle
  \/ PollStep
  \/ PollEnd
  \/ \E t \in TouchInputs : checkTouch(t)
  \/ \E uiDue \in BOOLEAN, blinkDue \in BOOLEAN : LoopUI(uiDue, blinkDue)
  \/ updateBacklightElse
  \/ handleJSON
  \/ LoopLinkCheck
  \/ LinkLoss
  \/ \E data \in LoopFrames : onBLENotify(data)
  \/ onBLENotifyGear

SpecSession == InitCodec /\ [][NextSession]_vars

\* one response per parameter and per DTC report, and lines that decode nothing
OrderFrames ==
  {"41 0C 1A F8", "41 0D 32" \o ElmTail, "41 05 5A" \o ElmTail, "41 10 0A 28",
   "03 01 71 02 03", "41 5E 10", "41 0C"}

\* boot, connect, poll and reconnect while the responses arrive in any order
NextOrder ==
  \/ LoopConnect
  \/ \E d \in Devices : onResult(d)
  \/ ScanComplete
  \/ \E ok \in BOOLEAN : ConnectAttempt(ok)
  \/ \E svc \in (IF linkUp THEN BOOLEAN ELSE {FALSE}) : DiscoverServices(svc)
  \/ GetTXCharacteristic(TRUE)
  \/ GetRXCharacteristic(TRUE)
  \/ registerForNotify(TRUE)
  \/ SetConnected
  \/ LoopPoll
  \/ LoopIdle
  \/ PollStep
  \/ PollEnd
  \/ checkTouch("none")
  \/ LoopUI(FALSE, FALSE)
  \/ LoopLinkCheck
  \/ LinkLoss
  \/ \E data \in OrderFrames : onBLENotify(data)
  \/ onBLENotifyGear

SpecOrder == Init /\ [][NextOrder]_vars

\* RPM and speed responses around the points where the gear changes: 25,
\* 1500, 1499.75, 1726, 6500 and 0 rpm, a negative first byte, and 0, 1, 2,
\* 50, 60 and 255 km/h; a line of each other parameter, and lines that are
\* not decoded
GearFrames ==
  {"41 0C " \o ab : ab \in {"00 64", "17 70", "17 6F", "1A F8", "65 90", "00 00", "-1 00"}}
  \cup {"41 0D " \o a \o ElmTail : a \in {"00", "01", "02", "32", "3C", "FF"}}
  \cup {"41 5E 10", "41 0D 3C", "41 05 5A" \o ElmTail, "41 10 0A 28", "03 01 71 02 03"}

NotifyGear == (\E data \in GearFrames : onBLENotify(data)) \/ onBLENotifyGear

\* the notification path fed with RPM and speed responses
SpecGear == InitCodec /\ [][NotifyGear]_vars

\* what may come back for the fuel-rate request: one and two data bytes, with
\* and without the adapter's tail, the header alone, the echo of the request
\* in front, lower case; and an RPM response
FuelFrames ==
  {"41 5E 10", "41 5E 01 F4", "41 5E 01 F4" \o ElmTail, "41 5E", "015E\r41 5E 01 F4",
   "41 5e 01 f4", "41 0C 1A F8"}

\* one connected session: poll cycles, requests for /data, and the responses
\* to the fuel-rate request
NextFuel ==
  \/ LoopPoll
  \/ LoopIdle
  \/ PollStep
  \/ PollEnd
  \/ checkTouch("none")
  \/ LoopUI(FALSE, FALSE)
  \/ handleJSON
  \/ LoopLinkCheck
  \/ LinkLoss
  \/ \E data \in FuelFrames : onBLENotify(data)
  \/ onBLENotifyGear

SpecFuel == InitCodec /\ [][NextFuel]_vars

\* responses that arrive while requests for /data are served: 1726 and 6500
\* rpm, 50 km/h, two DTC reports, a line that is not decoded
WebFrames ==
  {"41 0C 1A F8", "41 0C 65 90", "41 0D 32" \o ElmTail, "03 01 71 02 03", "03 01 71 02",
   "41 5E 10"}

\* passes of the connected loop with requests for /data, while the BLE task
\* runs the callback, step by step, for the notifications delivered
NextWeb ==
  \/ LoopIdle
  \/ checkTouch("none")
  \/ LoopUI(FALSE, FALSE)
  \/ handleJSON
  \/ LoopLinkCheck
  \/ LinkLoss
  \/ \E data \in WebFrames : onBLENotify(data)
  \/ onBLENotifyGear

SpecWeb == InitCodec /\ [][NextWeb]_vars

-----------------------------------------------------------------------------
(* Properties *)

\* value of a two-digit upper-case hex pair, by the table
hexPairValue(p) ==
  LET hi == CHOOSE i \in 0..15 : HexChars[i + 1] = CharAt(p, 0)
      lo == CHOOSE i \in 0..15 : HexChars[i + 1] = CharAt(p, 1)
  IN  16 * hi + lo

isHexPair(p) ==
  /\ Len(p) = 2
  /\ \E i \in 1..16 : HexChars[i] = CharAt(p, 0)
  /\ \E i \in 1..16 : HexChars[i] = CharAt(p, 1)

\* C1: the state is CONNECTED only when registration for notifications on the
\* RX characteristic has succeeded in the same cycle; without it the candidate
\* is discarded and the state is not CONNECTED.
C1_ConnectedOnlyAfterSubscribe == bleConnected => notifyRegistered

\* C2: when both connect attempts fail the client is released, the candidate
\* cleared and the state not CONNECTED; a state between two cycles that is not
\* CONNECTED leads to a new scan, and every state that is not CONNECTED leads
\* to a scan or to CONNECTED (no lock-up).
C2_RetryExhaustionRescans ==
  /\ [](last = "connectFailed" =>
          (pClient = "NULL" /\ foundDevice = NoDevice /\ ~bleConnected /\ pc # "connect"))
  /\ ((last = "connectFailed") ~> (pc = "scan"))
  /\ ((~bleConnected /\ pc = "loop") ~> (pc = "scan"))
  /\ ((~bleConnected) ~> (pc = "scan" \/ bleConnected))

C2_Witness == last = "connectFailed" /\ pc = "loop" /\ pClient = "NULL"

\* a recognised header with less payload than the parameter needs: two data
\* bytes for RPM and MAF, one for speed and coolant
shortPayload(r) ==
  \/ (startsWith(r, "41 0C") \/ startsWith(r, "41 10")) /\ Len(r) < 11
  \/ (startsWith(r, "41 0D") \/ startsWith(r, "41 05")) /\ Len(r) < 8

\* C3: a notification whose header is recognised but whose payload is too
\* short leaves the published snapshot as it was, in the callback's if-chain
\* and in the gear estimate that ends it.
C3_ShortPayloadKeepsSnapshot ==
  [][/\ (\E data \in CodecFrames : shortPayload(trim(data)) /\ onBLENotify(data))
          => vehicleState' = vehicleState
     /\ (onBLENotifyGear /\ shortPayload(resp)) => vehicleState' = vehicleState]_vars

unknownHeader(r) ==
  /\ ~startsWith(r, "41 0C") /\ ~startsWith(r, "41 0D") /\ ~startsWith(r, "41 05")
  /\ ~startsWith(r, "41 10") /\ ~startsWith(r, "03")

pollCycleStarted == pc = "poll" /\ cmdIdx = 1

\* C4: a notification whose header matches no recognised PID changes none of
\* rpm, speed, coolant, MAF, fuel rate, DTC list, nor the connection state, the
\* mode or the main thread's position; afterwards the next poll cycle is still
\* issued (unless the link is lost first).
C4_UnknownHeaderIgnored ==
  /\ [][(\E data \in LoopFrames : unknownHeader(trim(data)) /\ onBLENotify(data))
          => /\ UNCHANGED <<rpmVal, speedKph, coolantTemp, maf, fuelRate, dtcList>>
             /\ UNCHANGED <<pc, connVars, pollVars, uiVars>>]_vars
  /\ [][(onBLENotifyGear /\ unknownHeader(resp))
          => /\ UNCHANGED <<rpmVal, speedKph, coolantTemp, maf, fuelRate, dtcList>>
             /\ UNCHANGED <<pc, connVars, pollVars, uiVars>>]_vars
  /\ ((unknownHeader(resp) /\ resp # "" /\ bleConnected) ~> (pollCycleStarted \/ ~bleConnected))

C4_Witness ==
  /\ resp = "41 5E 10" /\ rpmVal = 1726 * RPM_SCALE
  /\ pollCycleStarted /\ txLog = <<"010C\r">>

isRpmLine(r) ==
  /\ Len(r) = 11 /\ SubSeq(r, 1, 6) = "41 0C " /\ CharAt(r, 8) = " "
  /\ isHexPair(SubSeq(r, 7, 8)) /\ isHexPair(SubSeq(r, 10, 11))

\* C5: after a line "41 0C AA BB" the published RPM is ((A*256)+B)/4 exactly;
\* "41 0C 1A F8" gives 1726.
C5_RpmDecoded ==
  /\ isRpmLine(resp) =>
       4 * vehicleState.rpm
         = RPM_SCALE * (hexPairValue(SubSeq(resp, 7, 8)) * 256 + hexPairValue(SubSeq(resp, 10, 11)))
  /\ resp = "41 0C 1A F8" => vehicleState.rpm = 1726 * RPM_SCALE

C5_Witness == resp = "41 0C 1A F8" /\ rpmVal = 6904 /\ cb = "idle" /\ estGear = 6

isByteLine(r, header) ==
  Len(r) = 8 /\ SubSeq(r, 1, 6) = header \o " " /\ isHexPair(SubSeq(r, 7, 8))

\* C6: after a line "41 05 AA" the published coolant temperature is A-40 and
\* after a line "41 0D AA" the published speed is A.
C6_SingleByteDecoded ==
  /\ isByteLine(resp, "41 05") => vehicleState.coolant = hexPairValue(SubSeq(resp, 7, 8)) - 40
  /\ isByteLine(resp, "41 0D") => vehicleState.speed = hexPairValue(SubSeq(resp, 7, 8))

\* C7: the published estimated gear is always in 1..6, also before the first
\* response has been decoded.
C7_GearInRange == vehicleState.gear \in 1..6

\* codes of exactly four characters, separated by single blanks, none trailing
wellGrouped(l) ==
  \/ l = ""
  \/ /\ Len(l) % 5 = 4
     /\ \A i \in 1..Len(l) : (CharAt(l, i - 1) = " ") <=> (i % 5 = 0)

\* C8: a DTC report line such as "43 01 71 02 03" replaces the published DTC
\* list by the digits after the header in groups of four ("0171 0203"), and no
\* code of the list is ever shorter than four characters.
C8_DtcReportGrouped ==
  /\ resp = "43 01 71 02 03" => vehicleState.dtc = "0171 0203"
  /\ wellGrouped(vehicleState.dtc)

blinking == currentMode = "SPORT" /\ rpmVal >= BLINK_RPM * RPM_SCALE

\* the step with which the UI block of a pass that refreshes the UI is over
uiRefreshEnds == pc \in {"ui", "backlight"} /\ pc' = "link" /\ last' = "uiRefresh"

\* C9: the blink phase toggles only while the mode is SPORT and RPM is at or
\* above 6500, and a UI refresh made with RPM below it or in another mode
\* leaves the backlight at DIM or FULL, never at the OFF phase.
C9_NoLeftoverBlink ==
  [][/\ blinkState' # blinkState => blinking
     /\ (uiRefreshEnds /\ ~blinking) => backlight' # BL_OFF]_vars

writes == Len(txLog') > Len(txLog)

\* C10 as stated: a request is written only in state CONNECTED and never
\* after the link has been lost.
C10_NoWriteAfterLinkLoss == [][writes => bleConnected /\ linkUp]_vars

\* C10 as amended: a request is written only while bleConnected is set, by
\* the poll cycle, through the TX handle of the live client; none is written
\* while scanning, connecting or discovering, nor once the loop has seen the
\* link loss.
C10_WriteOnlyWhenConnected ==
  /\ [][writes => /\ bleConnected /\ pClient = "LIVE" /\ pTXChar = "VALID"
                  /\ pc \in {"loop", "poll"}]_vars
  /\ [](~bleConnected => txLog = <<>>)

C10_Witness == pc = "poll" /\ Len(txLog) = 3 /\ bleConnected /\ ~linkUp

\* the order of the PID requests: RPM, speed, coolant, MAF, fuel rate
FiveInOrder == <<"010C", "010D", "0105", "0110", "015E">>

isPrefix(s, t) == Len(s) <= Len(t) /\ s = SubSeq(t, 1, Len(s))

withCR(s) == [i \in 1..Len(s) |-> s[i] \o "\r"]

cycleOver == pc \in {"touch", "ui", "backlight", "link"}

\* C11: the requests a poll cycle issues are the five PID requests in the
\* order RPM, speed, coolant, MAF, fuel rate: they are issued one at a time,
\* a cycle that has begun issues all five, a cycle that is over has issued all
\* five, none is left over for or carried into another cycle, and what
\* reaches the transport is in the same order.
C11_PidOrderPerCycle ==
  /\ [](isPrefix(calls, FiveInOrder \o <<"03">>))
  /\ [](pc = "poll" => calls # <<>> /\ isPrefix(calls, FiveInOrder))
  /\ [](cycleOver => calls = <<>> \/ isPrefix(FiveInOrder, calls))
  /\ [](~cycleOver /\ pc # "poll" => calls = <<>>)
  /\ [](txLog = <<>> \/ txLog = withCR(calls))
  /\ [][calls' # calls =>
          calls' = <<>> \/ (Len(calls') = Len(calls) + 1 /\ isPrefix(calls, calls'))]_vars
  /\ ((pc = "poll") ~> (cycleOver /\ isPrefix(FiveInOrder, calls)))

C11_Witness ==
  /\ pc = "poll" /\ calls = FiveInOrder /\ txLog = withCR(FiveInOrder) /\ cycleNo = 2

dtcIssued == \E i \in 1..Len(calls) : calls[i] = "03"

\* C12: the request "03" is issued in the 6th, 12th, ... poll cycle since boot
\* and in no other, whatever reconnects lie between the cycles, and always
\* behind the five PID requests of its cycle.
C12_DtcEverySixth ==
  /\ dtcIssued => calls = FiveInOrder \o <<"03">>
  /\ (cycleOver /\ calls # <<>> /\ cycleNo < MaxCycles)
       => ((cycleNo % 6 = 0) <=> dtcIssued)

C12_Witness ==
  /\ cycleNo = 12 /\ cycleOver /\ calls = FiveInOrder \o <<"03">>
  /\ txLog = <<>> /\ ~linkUp

heardNames == {heard[i].name : i \in 1..Len(heard)}

\* the main thread is in connectWorkflow behind the scan
connecting == pc \in {"connect", "discover", "getTX", "getRX", "register", "setConnected"}

\* C13: with a target name configured, whatever the scan has heard, the
\* candidate is a device heard in this window whose advertised name equals
\* the target name, a connect is only attempted with such a candidate, and
\* there is no candidate when no device heard has that name.
C13_FilterAcceptsOnlyMatch ==
  bleDeviceName # "" =>
    /\ foundDevice # NoDevice => foundDevice.name = bleDeviceName /\ inWindow(foundDevice)
    /\ connecting => foundDevice # NoDevice
    /\ (pc = "scan" /\ bleDeviceName \in heardNames) => foundDevice # NoDevice
    /\ bleDeviceName \notin heardNames => foundDevice = NoDevice /\ ~connecting

C13_Witness ==
  /\ bleDeviceName = "OBDII" /\ pc = "connect" /\ Len(heard) = 3
  /\ heard[1].name = "" /\ heard[2].name = "OBDII" /\ heard[3].name = "obdii"
  /\ foundDevice = heard[2]

\* C14: without a target name the candidate is the first device the scan
\* window heard, during the scan and when the connect is attempted.
C14_FirstDiscoveredIsCandidate ==
  (bleDeviceName = "" /\ (pc = "scan" \/ connecting) /\ heard # <<>>)
    => foundDevice = heard[1]

\* C15: when the link is up but the service is not found, the client is
\* disconnected and released, the candidate cleared and the state not
\* CONNECTED; while that candidate was being connected and looked up nothing
\* was registered for notifications and no request was issued or written.
C15_ServiceMissingDiscards ==
  /\ last = "serviceNotFound" =>
       /\ pc = "loop" /\ pClient = "NULL" /\ ~linkUp /\ foundDevice = NoDevice
       /\ ~bleConnected /\ ~notifyRegistered /\ txLog = <<>> /\ calls = <<>>
  /\ pc \in {"connect", "discover"} =>
       ~bleConnected /\ ~notifyRegistered /\ txLog = <<>> /\ calls = <<>>
  /\ connecting => ~bleConnected /\ txLog = <<>> /\ calls = <<>>

C15_Witness ==
  /\ last = "serviceNotFound" /\ heard # <<>> /\ foundDevice = NoDevice
  /\ pClient = "NULL" /\ cycleNo = 1

userOrDataStep ==
  \/ \E t \in TouchInputs : checkTouch(t)
  \/ LoopPoll \/ LoopIdle \/ PollStep \/ PollEnd
  \/ \E uiDue \in BOOLEAN, blinkDue \in BOOLEAN : LoopUI(uiDue, blinkDue)
  \/ updateBacklightElse
  \/ handleJSON
  \/ \E data \in LoopFrames : onBLENotify(data)
  \/ onBLENotifyGear

\* C16: the state leaves CONNECTED, and the client of the session is released,
\* only in the link check of a pass in which the transport reports the link as
\* not connected; a touch (mode button, menu, settings), a poll step, a UI
\* refresh, a request for /data or a notification changes neither the
\* connection state nor the client, its handles or the candidate.
C16_LeavesConnectedOnlyOnLinkLoss ==
  /\ [][(bleConnected /\ (~bleConnected' \/ pClient' # pClient)) =>
          (~linkUp /\ pc = "link" /\ ~bleConnected' /\ pClient' = "NULL")]_vars
  /\ [][userOrDataStep =>
          UNCHANGED <<bleConnected, pClient, pTXChar, pRXChar, notifyRegistered,
                      foundDevice, linkUp>>]_vars

\* mode button, menu and settings touched, two poll cycles run, a response
\* decoded and a request for /data served; the link is lost and the link check
\* of the pass is next
C16_Witness ==
  /\ bleConnected /\ pClient = "LIVE" /\ ~linkUp /\ pc = "link" /\ sent # <<>>
  /\ currentMode = "DATA" /\ menuActive /\ menuSelection = 0 /\ cycleNo = 2
  /\ rpmVal = 1726 * RPM_SCALE /\ cb = "idle"

\* C17: there is never more than one client object, and pClient is it; a
\* client is created only when none exists (the one before has been
\* disconnected and deleted); the handles of a deleted client are not used:
\* nothing is written or registered through them and the state is not
\* CONNECTED while they dangle.
C17_AtMostOneClient ==
  /\ [](clients \in {0, 1} /\ (clients = 1 <=> pClient = "LIVE"))
  /\ [](pClient = "NULL" => ~linkUp /\ ~notifyRegistered /\ ~bleConnected)
  /\ [](bleConnected => pTXChar # "STALE" /\ pRXChar # "STALE")
  /\ [](notifyRegistered => pRXChar = "VALID")
  /\ [][clients' > clients => (clients = 0 /\ pClient = "NULL" /\ ~linkUp)]_vars
  /\ [][writes => pClient = "LIVE" /\ pTXChar = "VALID"]_vars

C17_Witness ==
  /\ pc = "connect" /\ pClient = "LIVE" /\ clients = 1 /\ last = "createClient"
  /\ pTXChar = "STALE" /\ pRXChar = "STALE" /\ cycleNo = 3

\* the published value of a parameter, in its published unit or a multiple
published(p) ==
  CASE p = "rpm" -> vehicleState.rpm
    [] p = "speed" -> vehicleState.speed
    [] p = "coolant" -> vehicleState.coolant
    [] p = "maf" -> vehicleState.maf
    [] p = "fuel" -> vehicleState.fuel

\* C18: as long as no response has been decoded for a parameter, the value
\* a web request is answered with (server.handleClient() runs at the end of a
\* pass of the connected loop) is negative, the "unknown" sentinel, not zero
\* or another valid-looking value.
C18_UnknownUntilDecoded ==
  pc = "link" =>
    \A p \in {"rpm", "speed", "coolant", "maf", "fuel"} :
      p \notin decoded => published(p) < 0

\* C19: a link lost while CONNECTED leads to the state not CONNECTED with the
\* client released; the pass that sees the loss leads to a scan that starts
\* with no candidate; a connect is attempted only out of a scan, with a
\* candidate heard in that scan and a client created for it.
C19_LinkLossLeadsToFreshCycle ==
  /\ ((bleConnected /\ pClient = "LIVE" /\ ~linkUp) ~> (~bleConnected /\ pClient = "NULL"))
  /\ ((last = "linkLostSeen") ~> (pc = "scan" /\ foundDevice = NoDevice /\ heard = <<>>))
  /\ [](last = "linkLostSeen" => ~bleConnected /\ pClient = "NULL" /\ clients = 0)
  /\ [][(pc # "scan" /\ pc' = "scan") => (foundDevice' = NoDevice /\ heard' = <<>>)]_vars
  /\ [][(pc # "connect" /\ pc' = "connect") =>
          /\ pc = "scan" /\ foundDevice' # NoDevice /\ inWindow(foundDevice')
          /\ pClient = "NULL" /\ pClient' = "LIVE" /\ clients' = 1 /\ ~linkUp']_vars
  /\ [](connecting => foundDevice # NoDevice /\ inWindow(foundDevice))

C19_Witness ==
  /\ pc = "scan" /\ last = "scanStart" /\ foundDevice = NoDevice /\ heard = <<>>
  /\ pClient = "NULL" /\ pTXChar = "STALE" /\ cycleNo = 1 /\ ~bleConnected

\* the parameter a response line is for, by its header
paramOf(r) ==
  IF startsWith(r, "41 0C") THEN "rpm"
  ELSE IF startsWith(r, "41 0D") THEN "speed"
  ELSE IF startsWith(r, "41 05") THEN "coolant"
  ELSE IF startsWith(r, "41 10") THEN "maf"
  ELSE IF startsWith(r, "03") THEN "dtc"
  ELSE "none"

slot(p) ==
  CASE p = "rpm" -> rpmVal
    [] p = "speed" -> speedKph
    [] p = "coolant" -> coolantTemp
    [] p = "maf" -> maf
    [] p = "fuel" -> fuelRate
    [] p = "dtc" -> dtcList

Slots == {"rpm", "speed", "coolant", "maf", "fuel", "dtc"}

\* the snapshot once the responses of OrderFrames for the parameters in D have
\* arrived: 1726 rpm, 50 km/h, 50 degrees, 26.00 g/s, two codes, and the gear
\* of 1726 rpm at 50 km/h (3), at standstill (6), of no rpm (1)
snapshotOf(D) ==
  [rpm |-> IF "rpm" \in D THEN 1726 * RPM_SCALE ELSE 0,
   speed |-> IF "speed" \in D THEN 50 ELSE 0,
   coolant |-> IF "coolant" \in D THEN 50 ELSE 0,
   maf |-> IF "maf" \in D THEN 26 * MAF_SCALE ELSE (0 - 1) * MAF_SCALE,
   fuel |-> -1,
   gear |-> IF "rpm" \notin D THEN 1 ELSE IF "speed" \in D THEN 3 ELSE 6,
   dtc |-> IF "dtc" \in D THEN "0171 0203" ELSE ""]

\* C20: a response changes no slot but the one of its parameter (and the
\* gear); the snapshot after the responses of distinct parameters depends on
\* which of them have arrived, not on their order; a step of the connection
\* workflow, of the poll cycle, of the rest of the run loop or a link loss
\* changes no vehicle value.
C20_SlotsIndependent ==
  /\ [][(\E data \in OrderFrames : onBLENotify(data)) =>
          \A q \in Slots : q # paramOf(resp') => slot(q)' = slot(q)]_vars
  /\ [][onBLENotifyGear => \A q \in Slots : slot(q)' = slot(q)]_vars
  /\ []((decoded # {} /\ cb = "idle") => vehicleState = snapshotOf(decoded))
  /\ [][(MainThread \/ LinkLoss \/ \E d \in Devices : onResult(d)) =>
          vehicleState' = vehicleState]_vars

C20_Witness ==
  /\ decoded = {"rpm", "speed", "coolant", "maf", "dtc"} /\ resp = "41 0C 1A F8"
  /\ estGear = 3 /\ pc = "poll" /\ ~linkUp /\ cycleNo = 2

\* the whole number nearest to num/den (den > 0), a half counting upwards,
\* as far as the range 1..6 needs it: 0 stands for any below, 7 for any above
nearest(num, den) ==
  IF 2 * num < den THEN 0
  ELSE IF 2 * num >= 13 * den THEN 7
  ELSE CHOOSE g \in 1..6 : (2 * g - 1) * den <= 2 * num /\ 2 * num < (2 * g + 1) * den

\* clamp(round((rpm / max(speed, 1)) / 10), 1, 6) for the published rpm (in
\* 1/RPM_SCALE rpm) and speed
clampedGear(rpm, speed) ==
  LET m == IF speed >= 1 THEN speed ELSE 1
      g == nearest(rpm, RPM_SCALE * m * 10)
  IN  IF g < 1 THEN 1 ELSE IF g > 6 THEN 6 ELSE g

\* a callback has completed and none is in progress
callbackCompleted == estGear # 0 /\ cb = "idle"

\* C21: the gear estimate that ends a notification callback, whatever line
\* the callback carried, leaves the published gear at
\* clamp(round((rpm / max(speed, 1)) / 10), 1, 6) of the published rpm and
\* speed, and so it stays until the next callback stores a response.
C21_GearFollowsFormula ==
  /\ [][onBLENotifyGear =>
          vehicleState'.gear = clampedGear(vehicleState'.rpm, vehicleState'.speed)]_vars
  /\ [](callbackCompleted =>
          vehicleState.gear = clampedGear(vehicleState.rpm, vehicleState.speed))

C21_Witness ==
  /\ resp = "41 0D 3C" \o ElmTail /\ rpmVal = 1500 * RPM_SCALE /\ speedKph = 60
  /\ estGear = 3 /\ cb = "idle" /\ decoded = {"rpm", "speed", "coolant", "maf", "dtc"}

\* C22: while the state is CONNECTED the TX handle of the session is present,
\* and every request the poll cycle has issued has been written to it.
C22_IssuedRequestsAreWritten ==
  /\ bleConnected => pTXChar = "VALID"
  /\ txLog = withCR(calls)

\* C23: the published fuel rate is -1 in every state, whatever has been
\* requested and whatever has come back.
C23_FuelRateNeverDecoded ==
  /\ vehicleState.fuel = -1
  /\ sent # <<>> => sent[1].fuel = -1

C23_Witness ==
  /\ resp = "41 5E 01 F4" \o ElmTail /\ pc = "link"
  /\ calls = FiveInOrder /\ cycleNo = 2
  /\ sent # <<>> /\ sent[1].fuel = -1 /\ sent[1].rpm = 1726 * RPM_SCALE
  /\ sent[1].gear = 0

====
